---- MODULE Spec2Model ----
(***************************************************************************)
(* The categorization engine of spacefeeder                                *)
(* (src/spacefeeder/src/categorization/engine.rs).                         *)
(*                                                                         *)
(* Strings are sequences of one-character strings, Option<T> is a sequence *)
(* of length 0 (None) or 1 (Some), and an f32 confidence is an exact       *)
(* rational counted in units of 1/Unit (600 = 1.0), so that 0.9, 0.95,     *)
(* 0.25, n/2, n/3 and the 1.2 boost of each value used are exact.          *)
(***************************************************************************)
EXTENDS Integers, Sequences, FiniteSets, TLC

VARIABLES engine, ctx, tags, seen, excluded_tags, feed_tag_hints, base,
          collected, prev, calls, probe, answer, panicked, threads

vars == <<engine, ctx, tags, seen, excluded_tags, feed_tag_hints, base,
          collected, prev, calls, probe, answer, panicked, threads>>

----------------------------------------------------------------------------
(* Bounds of the model. *)

\* config.rules holds at most MaxRules rules
MaxRules == 2
\* config.max_tags_per_item ranges over 0..MaxTagsCap
MaxTagsCap == 2
\* generate_tags_for_item is called at most MaxCalls times on one context
MaxCalls == 2

----------------------------------------------------------------------------
(* Values. *)

\* 1.0 as a confidence
Unit == 600
\* confidence of an RSS/Atom category tag (0.9)
RssConfidence == 540
\* cap of the feed-hint boost (0.95)
BoostCap == 570
\* confidence of a weakly admitted feed hint (0.25)
WeakConfidence == 150
\* f32::NAN as a confidence: not a number, marked by a value that no
\* confidence takes
NaN == -1

None == <<>>
Some(v) == <<v>>
IsSome(o) == o # <<>>
\* Option::unwrap_or
UnwrapOr(o, d) == IF o = <<>> THEN d ELSE o[1]

Range(s) == {s[i] : i \in DOMAIN s}
Min(a, b) == IF a <= b THEN a ELSE b

\* char::is_alphabetic on the characters the model uses
Letters == {"a", "i", "k", "l", "m", "r", "s", "w", "x", "A", "I", "L", "M"}
IsAlphabetic(c) == c \in Letters

\* char::to_lowercase
LowerChar(c) ==
    CASE c = "A" -> "a"
      [] c = "I" -> "i"
      [] c = "L" -> "l"
      [] c = "M" -> "m"
      [] OTHER -> c

\* str::to_lowercase
ToLower(s) == [i \in 1..Len(s) |-> LowerChar(s[i])]

\* format!("{} {}", a, b)
Format2(a, b) == a \o <<" ">> \o b

\* str::find: the 1-based position of the first occurrence, 0 for None
Find(content, keyword) ==
    LET n == Len(keyword)
        hits == {p \in 1..(Len(content) - n + 1) :
                    SubSeq(content, p, p + n - 1) = keyword}
    IN  IF hits = {} THEN 0
        ELSE CHOOSE p \in hits : \A q \in hits : p <= q

\* str::contains
Contains(content, keyword) == Find(content, keyword) # 0

----------------------------------------------------------------------------
(* CategorizationEngine: construction and the matcher. *)

Tag(name, confidence, source) ==
    [name |-> name, confidence |-> confidence, source |-> source]

\* the inner loop of from_config: alias_map.insert(from.to_lowercase(), to)
RECURSIVE InsertFroms(_, _, _, _)
InsertFroms(map, from, to, i) ==
    IF i > Len(from) THEN map
    ELSE InsertFroms((ToLower(from[i]) :> to) @@ map, from, to, i + 1)

\* the outer loop of from_config over config.aliases
RECURSIVE BuildAliasMap(_, _, _)
BuildAliasMap(map, aliases, i) ==
    IF i > Len(aliases) THEN map
    ELSE BuildAliasMap(InsertFroms(map, aliases[i].from, aliases[i].to, 1),
                       aliases, i + 1)

FromConfig(config) ==
    [config |-> config, alias_map |-> BuildAliasMap(<<>>, config.aliases, 1)]

\* NormalizeTag looking the tag up as written, without lower-casing it first
NormalizeTagCaseSensitive(eng, tag) ==
    IF tag \in DOMAIN eng.alias_map
    THEN eng.alias_map[tag]
    ELSE ToLower(tag)

\* normalize_tag
NormalizeTag(eng, tag) ==
    LET tag_lower == ToLower(tag)
    IN  IF tag_lower \in DOMAIN eng.alias_map
        THEN eng.alias_map[tag_lower]
        ELSE tag_lower

\* MatchesKeyword without the word boundaries: a plain substring test
MatchesSubstring(content, keyword) == Contains(content, keyword)

\* matches_keyword, on a lower-cased content and keyword
MatchesKeyword(content, keyword) ==
    IF \E i \in DOMAIN keyword : keyword[i] = " "
    THEN Contains(content, keyword)
    ELSE LET pos == Find(content, keyword)
             after == pos + Len(keyword)
             before_ok == \/ pos = 1
                          \/ ~IsAlphabetic(content[pos - 1])
             after_ok == \/ after > Len(content)
                         \/ ~IsAlphabetic(content[after])
         IN  IF pos = 0 THEN FALSE ELSE before_ok /\ after_ok

\* the number of keywords[i..] that match the lower-cased content
RECURSIVE CountMatches(_, _, _)
CountMatches(content_lower, keywords, i) ==
    IF i > Len(keywords) THEN 0
    ELSE (IF MatchesKeyword(content_lower, ToLower(keywords[i])) THEN 1 ELSE 0)
         + CountMatches(content_lower, keywords, i + 1)

CheckKeywords(content, keywords) ==
    LET content_lower == ToLower(content)
        matches == CountMatches(content_lower, keywords, 1)
    IN  IF matches > 0
        THEN Some(Min((matches * Unit) \div Min(Len(keywords), 3), Unit))
        ELSE None

\* title.to_lowercase() + " " + description.unwrap_or("").to_lowercase()
LowerContent(title, description) ==
    Format2(ToLower(title), ToLower(UnwrapOr(description, <<>>)))

AnyPattern(patterns, content) ==
    \E i \in DOMAIN patterns : MatchesKeyword(content, ToLower(patterns[i]))

AnySubstring(patterns, text_lower) ==
    \E i \in DOMAIN patterns : Contains(text_lower, ToLower(patterns[i]))

\* ContentAnalysisMatches that ignores min_keyword_count: one matching
\* pattern is enough
ContentAnalysisAnyMatch(rule, content) ==
    \E i \in DOMAIN rule.patterns :
        MatchesKeyword(content, ToLower(rule.patterns[i]))

\* the "content_analysis" arm of apply_rule
ContentAnalysisMatches(rule, content) ==
    LET matched_keywords ==
          Cardinality({i \in DOMAIN rule.patterns :
             MatchesKeyword(content, ToLower(rule.patterns[i]))})
    IN  IF IsSome(rule.min_keyword_count)
        THEN matched_keywords >= rule.min_keyword_count[1]
        ELSE matched_keywords > 0

\* AuthorWithContentMatches that fires on the author alone when
\* required_keywords is empty, and on any one required keyword otherwise
AuthorOnlyMatches(rule, content, author) ==
    /\ IsSome(author)
    /\ AnySubstring(rule.patterns, ToLower(author[1]))
    /\ \/ rule.required_keywords = <<>>
       \/ \E i \in DOMAIN rule.required_keywords :
             MatchesKeyword(content, ToLower(rule.required_keywords[i]))

\* the "author_with_content" arm of apply_rule
AuthorWithContentMatches(rule, content, author) ==
    /\ IsSome(author)
    /\ AnySubstring(rule.patterns, ToLower(author[1]))
    /\ rule.required_keywords # <<>>
    /\ \A i \in DOMAIN rule.required_keywords :
          MatchesKeyword(content, ToLower(rule.required_keywords[i]))

\* the match expression of apply_rule
RuleMatches(rule, title, description, link, author, feed_slug) ==
    LET content == LowerContent(title, description)
    IN  CASE rule.rule_type = "title_contains" ->
               AnyPattern(rule.patterns, ToLower(title))
          [] rule.rule_type = "content_contains" ->
               AnyPattern(rule.patterns, content)
          [] rule.rule_type = "content_analysis" ->
               ContentAnalysisMatches(rule, content)
          [] rule.rule_type = "author_with_content" ->
               AuthorWithContentMatches(rule, content, author)
          [] rule.rule_type = "url_contains" ->
               /\ IsSome(link)
               /\ AnySubstring(rule.patterns, ToLower(link[1]))
          [] rule.rule_type = "author_contains" ->
               /\ IsSome(author)
               /\ AnySubstring(rule.patterns, ToLower(author[1]))
          [] rule.rule_type = "feed_slug" ->
               \E i \in DOMAIN rule.patterns : feed_slug = rule.patterns[i]
          [] rule.rule_type = "exclude_if" -> FALSE
          [] OTHER -> FALSE

\* RuleTags emitting the entries of `tags` before `tag`
RuleTagsListFirst(rule) ==
    [i \in 1..Len(rule.tags) |-> Tag(rule.tags[i], rule.confidence, "Rule")]
    \o (IF rule.tag # <<>> THEN <<Tag(rule.tag, rule.confidence, "Rule")>> ELSE <<>>)

\* the tags a matching rule emits: `tag` if non-empty, then every entry of `tags`
RuleTags(rule) ==
    (IF rule.tag # <<>> THEN <<Tag(rule.tag, rule.confidence, "Rule")>> ELSE <<>>)
    \o [i \in 1..Len(rule.tags) |-> Tag(rule.tags[i], rule.confidence, "Rule")]

\* ApplyRule without the exclude_patterns test
ApplyRuleNoVeto(rule, title, description, link, author, feed_slug) ==
    IF RuleMatches(rule, title, description, link, author, feed_slug)
    THEN (IF RuleTags(rule) # <<>> THEN Some(RuleTags(rule)) ELSE None)
    ELSE None

\* apply_rule
ApplyRule(rule, title, description, link, author, feed_slug) ==
    IF /\ rule.exclude_patterns # <<>>
       /\ AnyPattern(rule.exclude_patterns, LowerContent(title, description))
    THEN None
    ELSE IF RuleMatches(rule, title, description, link, author, feed_slug)
         THEN (IF RuleTags(rule) # <<>> THEN Some(RuleTags(rule)) ELSE None)
         ELSE None

----------------------------------------------------------------------------
(* generate_tags_for_item, step by step.  A step maps the locals            *)
(* st = [tags, seen] to their value after the step.                        *)

\* feed_tags.iter().map(normalize_tag).collect::<HashSet>()
FeedTagHints(eng, context) ==
    IF IsSome(context.feed_tags)
    THEN {NormalizeTag(eng, context.feed_tags[1][i]) :
             i \in DOMAIN context.feed_tags[1]}
    ELSE {}

\* PushIfNew that pushes also a name already in `seen`
PushAlways(st, tag) ==
    [tags |-> Append(st.tags, tag), seen |-> st.seen \cup {tag.name}]

\* push the tag unless seen.insert(name) finds the name already there
PushIfNew(st, tag) ==
    IF tag.name \in st.seen
    THEN st
    ELSE [tags |-> Append(st.tags, tag), seen |-> st.seen \cup {tag.name}]

\* 1. RSS/Atom categories
RECURSIVE AddCategories(_, _, _, _)
AddCategories(eng, categories, i, st) ==
    IF i > Len(categories) THEN st
    ELSE AddCategories(eng, categories, i + 1,
            PushIfNew(st, Tag(NormalizeTag(eng, categories[i]),
                              RssConfidence, "Feed")))

CategoryStep(eng, context, st) ==
    IF IsSome(context.rss_categories)
    THEN AddCategories(eng, context.rss_categories[1], 1, st)
    ELSE st

\* 2. the exclude_if rules whose patterns match mark their exclude_tags
ExcludedTags(eng, context) ==
    LET content == LowerContent(context.title, context.description)
        rules == eng.config.rules
    IN  UNION {Range(rules[i].exclude_tags) :
                 i \in {j \in DOMAIN rules :
                          /\ rules[j].rule_type = "exclude_if"
                          /\ AnyPattern(rules[j].patterns, content)}}

\* AddMatched in which a rule tag of a higher confidence replaces the tag
\* already collected under the same name
RECURSIVE AddMatchedKeepHighest(_, _, _, _, _)
AddMatchedKeepHighest(eng, matched_tags, excluded, i, st) ==
    IF i > Len(matched_tags) THEN st
    ELSE LET normalized == NormalizeTag(eng, matched_tags[i].name)
             tag == Tag(normalized, matched_tags[i].confidence,
                        matched_tags[i].source)
             raised == [k \in DOMAIN st.tags |->
                          IF /\ st.tags[k].name = normalized
                             /\ st.tags[k].confidence < tag.confidence
                          THEN tag
                          ELSE st.tags[k]]
         IN  AddMatchedKeepHighest(eng, matched_tags, excluded, i + 1,
                IF normalized \notin excluded
                THEN PushIfNew([st EXCEPT !.tags = raised], tag)
                ELSE st)

\* the loop over the tags one rule produced
RECURSIVE AddMatched(_, _, _, _, _)
AddMatched(eng, matched_tags, excluded, i, st) ==
    IF i > Len(matched_tags) THEN st
    ELSE LET normalized == NormalizeTag(eng, matched_tags[i].name)
         IN  AddMatched(eng, matched_tags, excluded, i + 1,
                IF normalized \notin excluded
                THEN PushIfNew(st, Tag(normalized, matched_tags[i].confidence,
                                       matched_tags[i].source))
                ELSE st)

\* RuleStep in a single pass over config.rules: an exclude_if rule suppresses
\* its exclude_tags only for the rules declared after it
RECURSIVE RuleStepSinglePass(_, _, _, _, _)
RuleStepSinglePass(eng, context, excluded, i, st) ==
    LET rules == eng.config.rules
        content == LowerContent(context.title, context.description)
        matched == ApplyRule(rules[i], context.title, context.description,
                             context.link, context.author, context.feed_slug)
        so_far == UNION {Range(rules[j].exclude_tags) :
                           j \in {k \in 1..(i - 1) :
                                    /\ rules[k].rule_type = "exclude_if"
                                    /\ AnyPattern(rules[k].patterns, content)}}
    IN  IF i > Len(rules) THEN st
        ELSE RuleStepSinglePass(eng, context, excluded, i + 1,
                IF rules[i].rule_type # "exclude_if" /\ IsSome(matched)
                THEN AddMatched(eng, matched[1], so_far, 1, st)
                ELSE st)

\* 3. rule-based tagging, in declaration order
RECURSIVE RuleStep(_, _, _, _, _)
RuleStep(eng, context, excluded, i, st) ==
    LET rules == eng.config.rules
        matched == ApplyRule(rules[i], context.title, context.description,
                             context.link, context.author, context.feed_slug)
    IN  IF i > Len(rules) THEN st
        ELSE RuleStep(eng, context, excluded, i + 1,
                IF rules[i].rule_type # "exclude_if" /\ IsSome(matched)
                THEN AddMatched(eng, matched[1], excluded, 1, st)
                ELSE st)

\* AddKeywordTags without the comparison with confidence_threshold
RECURSIVE AddKeywordTagsAnyScore(_, _, _, _, _)
AddKeywordTagsAnyScore(eng, content, excluded, i, st) ==
    LET tag_def == eng.config.tags[i]
        confidence == CheckKeywords(content, tag_def.keywords)
        normalized == NormalizeTag(eng, tag_def.name)
    IN  IF i > Len(eng.config.tags) THEN st
        ELSE AddKeywordTagsAnyScore(eng, content, excluded, i + 1,
                IF IsSome(confidence) /\ normalized \notin excluded
                THEN PushIfNew(st, Tag(normalized, confidence[1], "Keyword"))
                ELSE st)

\* the loop of step 4 over config.tags
RECURSIVE AddKeywordTags(_, _, _, _, _)
AddKeywordTags(eng, content, excluded, i, st) ==
    LET tag_def == eng.config.tags[i]
        confidence == CheckKeywords(content, tag_def.keywords)
        normalized == NormalizeTag(eng, tag_def.name)
    IN  IF i > Len(eng.config.tags) THEN st
        ELSE AddKeywordTags(eng, content, excluded, i + 1,
                IF /\ IsSome(confidence)
                   /\ confidence[1] >= eng.config.confidence_threshold
                   /\ normalized \notin excluded
                THEN PushIfNew(st, Tag(normalized, confidence[1], "Keyword"))
                ELSE st)

\* KeywordStep that scans the title without the description
KeywordStepTitleOnly(eng, context, excluded, st) ==
    IF eng.config.auto_tag_new_articles
    THEN AddKeywordTags(eng, context.title, excluded, 1, st)
    ELSE st

\* 4. keyword-based tagging
KeywordStep(eng, context, excluded, st) ==
    IF eng.config.auto_tag_new_articles
    THEN AddKeywordTags(eng,
            Format2(context.title, UnwrapOr(context.description, <<>>)),
            excluded, 1, st)
    ELSE st

\* Boost without the cap
BoostUncapped(confidence) == (confidence * 6) \div 5

\* (confidence * 1.2).min(0.95); f32::min returns the other argument when one
\* is NaN
Boost(confidence) ==
    IF confidence = NaN THEN BoostCap
    ELSE Min((confidence * 6) \div 5, BoostCap)

\* BoostStep that leaves a confidence above the cap as it is
BoostStepBelowCapOnly(hints, st) ==
    [st EXCEPT !.tags =
        [i \in 1..Len(st.tags) |->
            IF st.tags[i].name \in hints /\ st.tags[i].confidence <= BoostCap
            THEN [st.tags[i] EXCEPT !.confidence = Boost(@)]
            ELSE st.tags[i]]]

\* 5. boost the tags that a feed hint names
BoostStep(hints, st) ==
    [st EXCEPT !.tags =
        [i \in 1..Len(st.tags) |->
            IF st.tags[i].name \in hints
            THEN [st.tags[i] EXCEPT !.confidence = Boost(@)]
            ELSE st.tags[i]]]

\* FindTagDef returning the last definition of the name instead of the first
FindLastTagDef(eng, feed_tag) ==
    LET defs == eng.config.tags
        found == {i \in DOMAIN defs : NormalizeTag(eng, defs[i].name) = feed_tag}
    IN  IF found = {} THEN None
        ELSE Some(defs[CHOOSE i \in found : \A j \in found : i >= j])

\* config.tags.iter().find(|t| normalize_tag(&t.name) == *feed_tag)
FindTagDef(eng, feed_tag) ==
    LET defs == eng.config.tags
        found == {i \in DOMAIN defs : NormalizeTag(eng, defs[i].name) = feed_tag}
    IN  IF found = {} THEN None
        ELSE Some(defs[CHOOSE i \in found : \A j \in found : i <= j])

\* WeakStep that admits a hint whether or not a keyword of its definition matches
RECURSIVE WeakStepUnconditional(_, _, _, _, _, _)
WeakStepUnconditional(eng, context, excluded, order, i, st) ==
    LET feed_tag == order[i]
        tag_def == FindTagDef(eng, feed_tag)
    IN  IF i > Len(order) THEN st
        ELSE WeakStepUnconditional(eng, context, excluded, order, i + 1,
                IF /\ feed_tag \notin st.seen
                   /\ feed_tag \notin excluded
                   /\ IsSome(tag_def)
                   /\ tag_def[1].keywords # <<>>
                THEN PushIfNew(st, Tag(feed_tag, WeakConfidence, "Manual"))
                ELSE st)

\* 6. feed hints with a weak signal in the content, in the iteration order
\*    `order` of the HashSet feed_tag_hints
RECURSIVE WeakStep(_, _, _, _, _, _)
WeakStep(eng, context, excluded, order, i, st) ==
    LET feed_tag == order[i]
        content == LowerContent(context.title, context.description)
        tag_def == FindTagDef(eng, feed_tag)
        has_any_keyword == AnyPattern(tag_def[1].keywords, content)
    IN  IF i > Len(order) THEN st
        ELSE WeakStep(eng, context, excluded, order, i + 1,
                IF /\ feed_tag \notin st.seen
                   /\ feed_tag \notin excluded
                   /\ IsSome(tag_def)
                   /\ tag_def[1].keywords # <<>>
                   /\ has_any_keyword
                THEN PushIfNew(st, Tag(feed_tag, WeakConfidence, "Manual"))
                ELSE st)

\* InsertSorted placing the tag before the tags of equal confidence
RECURSIVE InsertBeforeTies(_, _)
InsertBeforeTies(sorted, tag) ==
    IF sorted = <<>> THEN <<tag>>
    ELSE IF Head(sorted).confidence > tag.confidence
         THEN <<Head(sorted)>> \o InsertBeforeTies(Tail(sorted), tag)
         ELSE <<tag>> \o sorted

\* Vec::insert of one tag into a list sorted by descending confidence, after
\* every tag that does not compare below it
RECURSIVE InsertSorted(_, _)
InsertSorted(sorted, tag) ==
    IF sorted = <<>> THEN <<tag>>
    ELSE IF Head(sorted).confidence >= tag.confidence
         THEN <<Head(sorted)>> \o InsertSorted(Tail(sorted), tag)
         ELSE <<tag>> \o sorted

\* SortByConfidence leaving the list as collected
Unsorted(list) == list

\* tags.sort_by(|a, b| b.confidence.partial_cmp(&a.confidence).unwrap()):
\* a stable sort by descending confidence
RECURSIVE SortByConfidence(_)
SortByConfidence(list) ==
    IF list = <<>> THEN <<>>
    ELSE InsertSorted(SortByConfidence(SubSeq(list, 1, Len(list) - 1)),
                      list[Len(list)])

\* partial_cmp returns None when one of the two confidences is NaN, and the
\* unwrap of the comparator then panics; a sort of two or more tags compares
\* every tag at least once
SortPanics(list) ==
    /\ Len(list) >= 2
    /\ \E i \in DOMAIN list : list[i].confidence = NaN

\* Vec::truncate
Truncate(list, len) == SubSeq(list, 1, Min(len, Len(list)))

\* the iteration orders of a HashSet
HashSetOrders(set) ==
    {order \in [1..Cardinality(set) -> set] :
        \A i, j \in 1..Cardinality(set) : i # j => order[i] # order[j]}

\* the locals of generate_tags_for_item when it returns at line 56
Disabled ==
    [tags |-> <<>>, seen |-> {}, excluded_tags |-> {}, feed_tag_hints |-> {},
     base |-> <<>>, collected |-> <<>>, panicked |-> FALSE]

\* lines 59-198 of generate_tags_for_item: the pipeline of an enabled engine,
\* with the locals it ends with (base: the tags before the boost; collected:
\* the tags before the sort); `order` is the iteration order of feed_tag_hints
Pipeline(eng, context, order) ==
    LET hints == FeedTagHints(eng, context)
        excluded == ExcludedTags(eng, context)
        s1 == CategoryStep(eng, context, [tags |-> <<>>, seen |-> {}])
        s3 == RuleStep(eng, context, excluded, 1, s1)
        s4 == KeywordStep(eng, context, excluded, s3)
        s5 == BoostStep(hints, s4)
        s6 == WeakStep(eng, context, excluded, order, 1, s5)
    IN  [tags |-> IF SortPanics(s6.tags) THEN <<>>
                  ELSE Truncate(SortByConfidence(s6.tags),
                                eng.config.max_tags_per_item),
         seen |-> s6.seen, excluded_tags |-> excluded,
         feed_tag_hints |-> hints, base |-> s4.tags, collected |-> s6.tags,
         panicked |-> SortPanics(s6.tags)]

\* generate_tags_for_item that runs the pipeline also when config.enabled is false
GenerateIgnoringEnabled(eng, context, order) == Pipeline(eng, context, order)

GenerateTagsForItem(eng, context, order) ==
    IF ~eng.config.enabled
    THEN Disabled
    ELSE Pipeline(eng, context, order)

----------------------------------------------------------------------------
(* The configurations and item contexts the model ranges over. *)

ai == <<"a", "i">>
AI == <<"A", "I">>
ml == <<"m", "l">>
ML == <<"M", "L">>
rs == <<"r", "s">>
sw == <<"s", "w">>
wk == <<"w", "k">>
xx == <<"x", "x">>

TagRule(rule_type, patterns, tag, tags_, confidence, exclude_tags) ==
    [rule_type |-> rule_type, patterns |-> patterns, tag |-> tag,
     tags |-> tags_, confidence |-> confidence, exclude_patterns |-> <<>>,
     min_keyword_count |-> None, required_keywords |-> <<>>,
     exclude_tags |-> exclude_tags]

RulePool ==
    { TagRule("exclude_if", <<wk>>, <<>>, <<>>, Unit, <<ai>>),
      TagRule("content_contains", <<AI>>, ai, <<>>, 480, <<>>),
      TagRule("feed_slug", <<sw>>, <<>>, <<AI, sw>>, 900, <<>>) }

\* the lists of at most MaxRules different rules of the pool, in every order
RuleLists ==
    UNION {{list \in [1..n -> RulePool] :
                \A i, j \in 1..n : i # j => list[i] # list[j]} :
           n \in 0..MaxRules}

TagDefinition(name, keywords) == [name |-> name, keywords |-> keywords]

TagLists ==
    { <<TagDefinition(ai, <<ai, ml, xx>>), TagDefinition(rs, <<rs>>),
        TagDefinition(xx, <<wk, xx>>)>>,
      <<TagDefinition(ML, <<>>), TagDefinition(ai, <<AI, rs>>)>> }

TagAlias(from, to) == [from |-> from, to |-> to]

AliasLists ==
    { <<>>, <<TagAlias(<<ML>>, ai)>>, <<TagAlias(<<ml>>, AI)>> }

Thresholds == {180, 420}

Configs ==
    [enabled : BOOLEAN,
     auto_tag_new_articles : BOOLEAN,
     max_tags_per_item : 0..MaxTagsCap,
     confidence_threshold : Thresholds,
     tags : TagLists,
     rules : RuleLists,
     aliases : AliasLists]

Contexts ==
    [title : {AI \o <<" ">> \o rs, wk \o <<" ">> \o ai},
     description : {None, Some(rs)},
     link : {None},
     author : {Some(sw)},
     feed_slug : {sw},
     feed_tags : {None, Some(<<ai, rs>>), Some(<<ML>>)},
     rss_categories : {None, Some(<<AI>>), Some(<<rs, ml>>)}]

----------------------------------------------------------------------------
(* The state machine: one engine, built once, and the calls made on it. *)

NoContext == <<>>

\* no helper of the engine has been called on its own yet
NoProbe == <<>>

\* no worker thread shares the engine
NoThreads == <<>>

Init ==
    /\ engine \in {FromConfig(config) : config \in Configs}
    /\ ctx = NoContext
    /\ tags = <<>>
    /\ seen = {}
    /\ excluded_tags = {}
    /\ feed_tag_hints = {}
    /\ base = <<>>
    /\ collected = <<>>
    /\ prev = None
    /\ calls = 0
    /\ probe = NoProbe
    /\ answer = None
    /\ panicked = FALSE
    /\ threads = NoThreads

\* one run of generate_tags_for_item on `context`
Run(context) ==
    \E order \in HashSetOrders(FeedTagHints(engine, context)) :
        \E r \in {GenerateTagsForItem(engine, context, order)} :
            /\ tags' = r.tags
            /\ seen' = r.seen
            /\ excluded_tags' = r.excluded_tags
            /\ feed_tag_hints' = r.feed_tag_hints
            /\ base' = r.base
            /\ collected' = r.collected
            /\ panicked' = r.panicked

\* the first call on the engine, on one of `contexts`
GenerateOn(contexts) ==
    /\ calls = 0
    /\ \E context \in contexts :
          /\ ctx' = context
          /\ Run(context)
    /\ prev' = None
    /\ calls' = 1
    /\ UNCHANGED <<engine, probe, answer, threads>>

Generate == GenerateOn(Contexts)

\* another call on the same engine with the identical ItemContext
Repeat ==
    /\ calls >= 1
    /\ calls < MaxCalls
    /\ ~panicked
    /\ Run(ctx)
    /\ prev' = Some(tags)
    /\ calls' = calls + 1
    /\ UNCHANGED <<engine, ctx, probe, answer, threads>>

Next == Generate \/ Repeat

Spec == Init /\ [][Next]_vars

----------------------------------------------------------------------------
(* Properties of generate_tags_for_item. *)

\* a call has returned
Returned == calls >= 1 /\ ~panicked

Names(list) == {list[i].name : i \in DOMAIN list}

\* the exclude_if rules of the engine whose patterns match the context
MatchingExcludeRules ==
    {i \in DOMAIN engine.config.rules :
        /\ engine.config.rules[i].rule_type = "exclude_if"
        /\ AnyPattern(engine.config.rules[i].patterns,
                      LowerContent(ctx.title, ctx.description))}

\* C1: a disabled engine returns the empty list, whatever the context and the
\* rest of the configuration
C1_DisabledReturnsEmpty ==
    (Returned /\ ~engine.config.enabled) => tags = <<>>

\* a disabled engine was called on a context for which the same
\* configuration, enabled, returns tags
C1_Witness ==
    /\ Returned
    /\ ~engine.config.enabled
    /\ engine.config.rules # <<>>
    /\ IsSome(ctx.rss_categories)
    /\ \E order \in HashSetOrders(FeedTagHints(engine, ctx)) :
          Pipeline(engine, ctx, order).tags # <<>>

\* C2: when an exclude_if rule matches, no tag listed in its exclude_tags is
\* in the output, whichever signal supports the tag
C2_ExcludedTagsNeverReturned ==
    Returned =>
        \A i \in MatchingExcludeRules :
            Names(tags) \cap Range(engine.config.rules[i].exclude_tags) = {}


\* the tag definitions whose normalized name is `name`
DefsNamed(name) ==
    {i \in DOMAIN engine.config.tags :
        NormalizeTag(engine, engine.config.tags[i].name) = name}

\* some keyword of a tag definition named `name` matches title+description
Evidenced(name) ==
    \E i \in DefsNamed(name) :
        AnyPattern(engine.config.tags[i].keywords,
                   LowerContent(ctx.title, ctx.description))

\* the normalized feed tags of the context of the call
Hints == FeedTagHints(engine, ctx)

\* C3 as claimed: a feed tag that no keyword of its tag definition evidences
\* is never in the output
C3_UnevidencedHintNeverReturned ==
    Returned =>
        \A name \in Hints : ~Evidenced(name) => name \notin Names(tags)

\* C3: a feed tag that no keyword of its tag definition evidences is never
\* added by the keyword step or the weak feed-hint step: a tag of that name in
\* the output comes from an RSS category or from a rule
C3_UnevidencedHintOnlyFromOtherSignals ==
    Returned =>
        \A name \in Hints :
            ~Evidenced(name) =>
                \A i \in DOMAIN tags :
                    tags[i].name = name => tags[i].source \in {"Feed", "Rule"}

\* an enabled engine returned tags for a context one of whose feed tags has a
\* tag definition with keywords, none of which matches, and left that tag out
C3_Witness ==
    /\ Returned
    /\ engine.config.enabled
    /\ tags # <<>>
    /\ \E name \in Hints :
          /\ ~Evidenced(name)
          /\ \E i \in DefsNamed(name) : engine.config.tags[i].keywords # <<>>
          /\ name \notin Names(collected)

\* C4: a second call with the identical context returns the identical list
C4_Deterministic ==
    IsSome(prev) => tags = prev[1]

\* C5: the output has min(max_tags_per_item, collected) entries, all of them
\* collected tags, and no dropped tag has a higher confidence than a kept one
C5_RankAndCap ==
    Returned =>
        /\ Len(tags) = Min(engine.config.max_tags_per_item, Len(collected))
        /\ Range(tags) \subseteq Range(collected)
        /\ \A d \in Range(collected) \ Range(tags) :
              \A k \in Range(tags) : d.confidence <= k.confidence

\* a call collected five tags, more than max_tags_per_item = 2, with pairwise
\* distinct confidences and not in descending order
C5_Witness ==
    /\ Returned
    /\ engine.config.max_tags_per_item = 2
    /\ Len(collected) = 5
    /\ \A i, j \in DOMAIN collected :
          i # j => collected[i].confidence # collected[j].confidence
    /\ \E i, j \in DOMAIN collected :
          i < j /\ collected[i].confidence < collected[j].confidence

\* the position of the tag called `name` in a list of tags
IndexOf(list, name) == CHOOSE i \in DOMAIN list : list[i].name = name

\* the first position of `name` in a sequence of names, 0 when absent
First(names, name) ==
    IF \E i \in DOMAIN names : names[i] = name
    THEN CHOOSE i \in DOMAIN names :
            names[i] = name /\ \A j \in 1..(i - 1) : names[j] # name
    ELSE 0

\* the normalized RSS categories of the context, in their order
CategoryNames ==
    LET categories == UnwrapOr(ctx.rss_categories, <<>>)
    IN  [i \in DOMAIN categories |-> NormalizeTag(engine, categories[i])]

\* the normalized names the rules from the i-th on emit, in declaration order
RECURSIVE RuleNamesFrom(_)
RuleNamesFrom(i) ==
    IF i > Len(engine.config.rules) THEN <<>>
    ELSE LET matched == ApplyRule(engine.config.rules[i], ctx.title,
                                  ctx.description, ctx.link, ctx.author,
                                  ctx.feed_slug)
             emitted == UnwrapOr(matched, <<>>)
         IN  [k \in DOMAIN emitted |-> NormalizeTag(engine, emitted[k].name)]
             \o RuleNamesFrom(i + 1)

\* the normalized names of the tag definitions, in declaration order
KeywordNames ==
    [i \in DOMAIN engine.config.tags |->
        NormalizeTag(engine, engine.config.tags[i].name)]

\* the pipeline steps in their order
SourceRank(source) ==
    CASE source = "Feed" -> 1
      [] source = "Rule" -> 2
      [] source = "Keyword" -> 3
      [] source = "Manual" -> 4

\* where in its step a tag was first produced
StepKey(tag) ==
    CASE tag.source = "Feed" -> First(CategoryNames, tag.name)
      [] tag.source = "Rule" -> First(RuleNamesFrom(1), tag.name)
      [] tag.source = "Keyword" -> First(KeywordNames, tag.name)
      [] tag.source = "Manual" -> 0

\* tag a was collected before tag b, by the order of the pipeline
CollectedBefore(a, b) ==
    \/ SourceRank(a.source) < SourceRank(b.source)
    \/ /\ a.source = b.source
       /\ a.source = "Manual" \/ StepKey(a) < StepKey(b)

\* C6: the output is in non-increasing order of confidence, and tags of equal
\* confidence are in the order in which the pipeline collected them
C6_SortedStable ==
    Returned =>
        \A i, j \in DOMAIN tags :
            i < j =>
                /\ tags[i].confidence >= tags[j].confidence
                /\ tags[i].confidence = tags[j].confidence =>
                      /\ IndexOf(collected, tags[i].name)
                            < IndexOf(collected, tags[j].name)
                      /\ CollectedBefore(tags[i], tags[j])

\* the collected tags were not in descending order, and two tags of equal
\* confidence from different steps are both in the output
C6_Witness ==
    /\ Returned
    /\ \E i, j \in DOMAIN collected :
          i < j /\ collected[i].confidence < collected[j].confidence
    /\ \E i, j \in DOMAIN tags :
          /\ i < j
          /\ tags[i].confidence = tags[j].confidence
          /\ tags[i].source # tags[j].source

\* C7: no two entries of the output have the same name
C7_UniqueNames ==
    Returned =>
        \A i, j \in DOMAIN tags : i # j => tags[i].name # tags[j].name

\* one name, produced by an RSS category, by a rule, by a keyword definition
\* and by a feed tag alike, is in an output of more than one tag
C7_Witness ==
    /\ Returned
    /\ Len(tags) > 1
    /\ engine.config.auto_tag_new_articles
    /\ \E i \in DOMAIN tags :
          /\ tags[i].name \in Range(CategoryNames)
          /\ tags[i].name \in Range(RuleNamesFrom(1))
          /\ tags[i].name \in Hints
          /\ Evidenced(tags[i].name)

\* the names the signals of the call carry before normalization: the RSS
\* categories, the tags of the rules, the tag definitions and the feed tags
SourceNames ==
    Range(UnwrapOr(ctx.rss_categories, <<>>))
        \cup Range(UnwrapOr(ctx.feed_tags, <<>>))
        \cup {engine.config.tags[i].name : i \in DOMAIN engine.config.tags}
        \cup UNION {{engine.config.rules[i].tag}
                       \cup Range(engine.config.rules[i].tags) :
                    i \in DOMAIN engine.config.rules}

\* the aliases one of whose `from` entries is, lower-cased, `lower`
AliasesFrom(lower) ==
    {i \in DOMAIN engine.config.aliases :
        \E k \in DOMAIN engine.config.aliases[i].from :
            ToLower(engine.config.aliases[i].from[k]) = lower}

\* a lower-cased, alias-normalized form of a source name
IsNormalFormOf(name, source_name) ==
    IF AliasesFrom(ToLower(source_name)) = {}
    THEN name = ToLower(source_name)
    ELSE \E i \in AliasesFrom(ToLower(source_name)) :
            name = engine.config.aliases[i].to

\* C8: every output name has no upper-case letter and is the lower-cased
\* source name, or its alias target when that is a `from` entry of an alias
C8_NamesLowerCasedAndAliased ==
    Returned =>
        \A i \in DOMAIN tags :
            /\ ToLower(tags[i].name) = tags[i].name
            /\ \E source_name \in SourceNames :
                  IsNormalFormOf(tags[i].name, source_name)

\* C9: every output confidence is within [0, 1]
C9_ConfidenceInUnitRange ==
    Returned =>
        \A i \in DOMAIN tags :
            /\ tags[i].confidence >= 0
            /\ tags[i].confidence <= Unit

\* confidence = min(1.2 * base_confidence, 0.95), without rounding
IsBoostOf(confidence, base_confidence) ==
    IF 6 * base_confidence >= 5 * BoostCap
    THEN confidence = BoostCap
    ELSE 5 * confidence = 6 * base_confidence

\* C10: a tag collected by the category, rule or keyword steps ends with
\* min(1.2 * base, 0.95) when a feed hint names it and with its base
\* confidence otherwise
C10_FeedHintBoost ==
    Returned =>
        /\ Len(base) <= Len(collected)
        /\ \A i \in DOMAIN base :
              /\ collected[i].name = base[i].name
              /\ collected[i].source = base[i].source
              /\ IF base[i].name \in Hints
                 THEN IsBoostOf(collected[i].confidence, base[i].confidence)
                 ELSE collected[i].confidence = base[i].confidence
        /\ Range(tags) \subseteq Range(collected)

\* the output holds a boosted and an unboosted tag, and the call collected a
\* tag that the boost capped and one that it raised below the cap
C10_Witness ==
    /\ Returned
    /\ \E i, j \in DOMAIN base :
          /\ base[i].name \in Hints
          /\ base[j].name \notin Hints
          /\ collected[i] \in Range(tags)
          /\ collected[j] \in Range(tags)
    /\ \E i, j \in DOMAIN base :
          /\ base[i].name \in Hints
          /\ base[j].name \in Hints
          /\ collected[i].confidence = BoostCap
          /\ base[i].confidence < BoostCap
          /\ collected[j].confidence < BoostCap
          /\ collected[j].confidence > base[j].confidence

\* the tags the weak feed-hint step appended to the collected list
WeaklyAdmitted == {collected[i] : i \in (Len(base) + 1)..Len(collected)}

\* a feed hint the weak feed-hint step has to decide on: no earlier step
\* collected it and no matching exclude_if rule lists it
OpenHints == {name \in Hints : name \notin Names(base) /\ name \notin excluded_tags}

\* some keyword of the first tag definition named `name` matches
\* title+description
FirstDefEvidenced(name) ==
    /\ DefsNamed(name) # {}
    /\ LET first == CHOOSE i \in DefsNamed(name) : \A j \in DefsNamed(name) : i <= j
       IN  AnyPattern(engine.config.tags[first].keywords,
                      LowerContent(ctx.title, ctx.description))

\* the weak feed-hint step appended only feed hints, each at 0.25 with source
\* Manual, and they reach the output with that confidence
WeakTagsAreManualQuarter ==
    /\ \A tag \in WeaklyAdmitted :
          /\ tag.name \in OpenHints
          /\ tag.confidence = WeakConfidence
          /\ tag.source = "Manual"
    /\ \A i \in DOMAIN tags :
          tags[i].source = "Manual" => tags[i].confidence = WeakConfidence

\* C11 as claimed: an open feed hint is admitted by the weak feed-hint step
\* if and only if a keyword of some tag definition of that normalized name
\* matches title+description; the admitted tag has confidence 0.25 and
\* source Manual
C11_WeakAdmissionByAnyDefinition ==
    (Returned /\ engine.config.enabled) =>
        /\ \A name \in OpenHints :
              (\E tag \in WeaklyAdmitted : tag.name = name) <=> Evidenced(name)
        /\ WeakTagsAreManualQuarter

\* C11: an open feed hint is admitted by the weak feed-hint step if and only
\* if a keyword of the first tag definition of that normalized name matches
\* title+description; the admitted tag has confidence 0.25 and source Manual,
\* unboosted
C11_WeakAdmissionByFirstDefinition ==
    (Returned /\ engine.config.enabled) =>
        /\ \A name \in OpenHints :
              (\E tag \in WeaklyAdmitted : tag.name = name) <=> FirstDefEvidenced(name)
        /\ WeakTagsAreManualQuarter

\* a call admitted one open feed hint weakly and returned it at 0.25, and
\* left out another whose first definition no keyword evidences
C11_Witness ==
    /\ Returned
    /\ \E tag \in WeaklyAdmitted : tag \in Range(tags)
    /\ \E name \in OpenHints :
          /\ DefsNamed(name) # {}
          /\ ~FirstDefEvidenced(name)
          /\ name \notin Names(collected)

----------------------------------------------------------------------------
(* The helpers of the engine, called on their own: matches_keyword,        *)
(* check_keywords, apply_rule and normalize_tag.  `probe` is the call and  *)
(* its arguments, `answer` the value returned; a behaviour makes one call.  *)

\* a content string has at most MaxContentLen characters
MaxContentLen == 4
\* a keyword that is not a phrase has at most MaxKeywordLen characters
MaxKeywordLen == 2
\* a keyword list has at most MaxKeywords keywords
MaxKeywords == 4

\* two letters, a whitespace character and a character that is neither
Chars == {"a", "i", " ", "1"}

StringsUpTo(n) == UNION {[1..k -> Chars] : k \in 0..n}

\* keywords of two words
Phrases == { <<"a", " ", "a">>, <<"a", " ", "i">>, <<"i", " ", "a">> }

MatchKeywords == StringsUpTo(MaxKeywordLen) \cup Phrases

KeywordPool == { <<"a">>, <<"i">>, <<"1">> }

KeywordLists == UNION {[1..k -> KeywordPool] : k \in 0..MaxKeywords}

CheckContents ==
    { <<>>, <<"a">>, <<"A", " ", "i">>, <<"a", "i">>,
      <<"1", " ", "a", " ", "I">> }

said == <<"s", "a", "i", "d">>
mAIl == <<"m", "A", "I", "l">>

\* a rule of every field; TagRule leaves the optional fields at their defaults
FullRule(rule_type, patterns, tag, tags_, exclude_patterns, min_count, required) ==
    [TagRule(rule_type, patterns, tag, tags_, 480, <<>>)
        EXCEPT !.exclude_patterns = exclude_patterns,
               !.min_keyword_count = min_count,
               !.required_keywords = required]

\* the (tag, tags) pairs of the rules
RuleOutputs ==
    { <<ai, <<>>>>, <<<<>>, <<ml, rs>>>>, <<sw, <<ml, rs>>>>, <<<<>>, <<>>>> }

UnitRules ==
    { FullRule("author_with_content", patterns, out[1], out[2],
               exclude_patterns, None, required_keywords) :
        patterns \in {<<sw>>, <<xx, AI>>, <<>>},
        out \in RuleOutputs,
        exclude_patterns \in {<<>>, <<xx>>},
        required_keywords \in {<<>>, <<ai>>, <<AI, rs>>} }
    \cup
    { FullRule("content_analysis", patterns, out[1], out[2],
               exclude_patterns, min_keyword_count, <<>>) :
        patterns \in {<<ai, rs, wk>>, <<AI, ai>>, <<>>},
        out \in RuleOutputs,
        exclude_patterns \in {<<>>, <<xx>>},
        min_keyword_count \in {None, Some(0), Some(1), Some(2), Some(4)} }
    \cup
    { FullRule(rule_type, patterns, out[1], out[2], exclude_patterns, None,
               <<>>) :
        rule_type \in {"title_contains", "content_contains"},
        patterns \in {<<AI>>, <<>>},
        out \in RuleOutputs,
        exclude_patterns \in {<<>>, <<xx>>} }
    \cup
    { FullRule(rule_type, patterns, out[1], out[2], exclude_patterns, None,
               <<>>) :
        rule_type \in {"url_contains", "author_contains", "feed_slug"},
        patterns \in {<<sw>>, <<xx, <<>>>>},
        out \in RuleOutputs,
        exclude_patterns \in {<<>>, <<xx>>} }

UnitContexts ==
    [title : {AI \o <<" ">> \o rs, wk \o <<" ">> \o ai, said, xx \o <<" ">> \o rs},
     description : {None, Some(ai)},
     link : {None, Some(<<>>), Some(sw)},
     author : {None, Some(<<>>), Some(sw), Some(mAIl)},
     feed_slug : {sw},
     feed_tags : {None},
     rss_categories : {None}]

UnitAliasLists ==
    { <<>>,
      <<TagAlias(<<ML>>, ai)>>,
      <<TagAlias(<<ai>>, AI), TagAlias(<<AI>>, rs), TagAlias(<<rs>>, ml)>> }

UnitConfigs ==
    [enabled : {TRUE},
     auto_tag_new_articles : {TRUE},
     max_tags_per_item : {MaxTagsCap},
     confidence_threshold : {180},
     tags : {<<>>},
     rules : {<<>>},
     aliases : UnitAliasLists]

\* the tag names normalize_tag is called on
TagInputs == { ai, AI, <<"A", "i">>, ml, ML, <<"m", "L">>, rs, <<>> }

InitUnit ==
    /\ engine \in {FromConfig(config) : config \in UnitConfigs}
    /\ ctx = NoContext
    /\ tags = <<>>
    /\ seen = {}
    /\ excluded_tags = {}
    /\ feed_tag_hints = {}
    /\ base = <<>>
    /\ collected = <<>>
    /\ prev = None
    /\ calls = 0
    /\ probe = NoProbe
    /\ answer = None
    /\ panicked = FALSE
    /\ threads = NoThreads

\* the variables of generate_tags_for_item, which a helper called on its own
\* leaves alone
call_vars == <<engine, ctx, tags, seen, excluded_tags, feed_tag_hints, base,
               collected, prev, calls, panicked, threads>>

CallMatchesKeyword ==
    /\ probe = NoProbe
    /\ \E content \in StringsUpTo(MaxContentLen), keyword \in MatchKeywords :
          /\ probe' = [call |-> "matches_keyword", content |-> content,
                       keyword |-> keyword]
          /\ answer' = Some(MatchesKeyword(content, keyword))
    /\ UNCHANGED call_vars

CallCheckKeywords ==
    /\ probe = NoProbe
    /\ \E content \in CheckContents, keywords \in KeywordLists :
          /\ probe' = [call |-> "check_keywords", content |-> content,
                       keywords |-> keywords]
          /\ answer' = Some(CheckKeywords(content, keywords))
    /\ UNCHANGED call_vars

CallApplyRule ==
    /\ probe = NoProbe
    /\ \E rule \in UnitRules, context \in UnitContexts :
          /\ probe' = [call |-> "apply_rule", rule |-> rule,
                       context |-> context]
          /\ answer' = Some(ApplyRule(rule, context.title, context.description,
                                      context.link, context.author,
                                      context.feed_slug))
    /\ UNCHANGED call_vars

CallNormalizeTag ==
    /\ probe = NoProbe
    /\ \E tag \in TagInputs :
          /\ probe' = [call |-> "normalize_tag", tag |-> tag]
          /\ answer' = Some(NormalizeTag(engine, tag))
    /\ UNCHANGED call_vars

NextUnit ==
    \/ CallMatchesKeyword
    \/ CallCheckKeywords
    \/ CallApplyRule
    \/ CallNormalizeTag

SpecUnit == InitUnit /\ [][NextUnit]_vars

----------------------------------------------------------------------------
(* Properties of the helpers. *)

Called(name) == probe # NoProbe /\ probe.call = name

\* the positions (1-based) at which `keyword` occurs in `content`
Occurrences(content, keyword) ==
    {p \in 1..(Len(content) - Len(keyword) + 1) :
        SubSeq(content, p, p + Len(keyword) - 1) = keyword}

\* the occurrence at p is delimited: it starts at the start of the string or
\* after a non-alphabetic character, and ends at the end of the string or
\* before a non-alphabetic character
Delimited(content, keyword, p) ==
    /\ p = 1 \/ ~IsAlphabetic(content[p - 1])
    /\ \/ p + Len(keyword) > Len(content)
       \/ ~IsAlphabetic(content[p + Len(keyword)])

HasSpace(keyword) == \E i \in DOMAIN keyword : keyword[i] = " "

\* C12: matches_keyword returns false for a keyword without spaces none of
\* whose occurrences in the content is delimited on both sides
C12_BoundarySoundness ==
    (Called("matches_keyword") /\ ~HasSpace(probe.keyword)) =>
        ((\A p \in Occurrences(probe.content, probe.keyword) :
             ~Delimited(probe.content, probe.keyword, p))
         => answer = Some(FALSE))

\* matches_keyword rejected a two-letter keyword that occurs in the content,
\* but only inside a longer word
C12_Witness ==
    /\ Called("matches_keyword")
    /\ Len(probe.keyword) = 2
    /\ \A i \in DOMAIN probe.keyword : IsAlphabetic(probe.keyword[i])
    /\ Occurrences(probe.content, probe.keyword) # {}
    /\ \A p \in Occurrences(probe.content, probe.keyword) :
          ~Delimited(probe.content, probe.keyword, p)
    /\ answer = Some(FALSE)

\* C13: matches_keyword returns true for a non-empty keyword without spaces
\* that has at least one occurrence in the content delimited on both sides,
\* wherever its other occurrences lie
C13_BoundaryCompleteness ==
    (/\ Called("matches_keyword")
     /\ probe.keyword # <<>>
     /\ ~HasSpace(probe.keyword)) =>
        ((\E p \in Occurrences(probe.content, probe.keyword) :
             Delimited(probe.content, probe.keyword, p))
         => answer = Some(TRUE))

\* the position of the first space of a keyword
SpaceAt(keyword) ==
    CHOOSE i \in DOMAIN keyword :
        keyword[i] = " " /\ \A j \in 1..(i - 1) : keyword[j] # " "

\* the two words of a phrase occur in `content` in sequence, separated by one
\* or more whitespace characters, the first starting and the second ending at
\* a word boundary
PhraseOccurs(content, keyword) ==
    LET first == SubSeq(keyword, 1, SpaceAt(keyword) - 1)
        last == SubSeq(keyword, SpaceAt(keyword) + 1, Len(keyword))
    IN  \E p \in DOMAIN content, gap \in 1..Len(content) :
            LET q == p + Len(first) + gap
                end == q + Len(last) - 1
            IN  /\ end <= Len(content)
                /\ SubSeq(content, p, p + Len(first) - 1) = first
                /\ \A k \in (p + Len(first))..(q - 1) : content[k] = " "
                /\ SubSeq(content, q, end) = last
                /\ p = 1 \/ ~IsAlphabetic(content[p - 1])
                /\ end = Len(content) \/ ~IsAlphabetic(content[end + 1])

\* C14: for a keyword of several words, matches_keyword returns true exactly
\* when the words occur in the content in sequence, separated by whitespace
\* and anchored at word boundaries
C14_PhraseAtWordBoundaries ==
    (Called("matches_keyword") /\ probe.keyword \in Phrases) =>
        answer = Some(PhraseOccurs(probe.content, probe.keyword))

Max(a, b) == IF a >= b THEN a ELSE b

\* the floor 0.33 of the claimed score, in units of 1/Unit
ScoreFloor == (33 * Unit) \div 100

\* the number of keywords of a check_keywords call that match its content
MatchedCount ==
    Cardinality({i \in DOMAIN probe.keywords :
        MatchesKeyword(ToLower(probe.content), ToLower(probe.keywords[i]))})

\* C15: check_keywords returns None when no keyword matches, and otherwise
\* matched_count / total_keyword_count, clamped to [0,1] and raised to at
\* least 0.33
C15_ScoreIsMatchedOverTotal ==
    Called("check_keywords") =>
        answer = Some(IF MatchedCount = 0
                      THEN None
                      ELSE Some(Max(Min((MatchedCount * Unit)
                                            \div Len(probe.keywords), Unit),
                                    ScoreFloor)))

\* the lower-cased title+description of an apply_rule call
ProbeContent == LowerContent(probe.context.title, probe.context.description)

\* an exclude pattern of the rule matches the content: the rule is skipped
Vetoed ==
    \E i \in DOMAIN probe.rule.exclude_patterns :
        MatchesKeyword(ProbeContent, ToLower(probe.rule.exclude_patterns[i]))

\* the tags the rule names: `tag` if set, then `tags`, each with the rule's
\* confidence and source Rule
NamedTags ==
    LET names == (IF probe.rule.tag = <<>> THEN <<>> ELSE <<probe.rule.tag>>)
                 \o probe.rule.tags
    IN  [i \in DOMAIN names |->
            [name |-> names[i], confidence |-> probe.rule.confidence,
             source |-> "Rule"]]

\* an apply_rule call on a rule of the given type that names a tag and that no
\* exclude pattern skips
RuleCalled(rule_type) ==
    /\ Called("apply_rule")
    /\ probe.rule.rule_type = rule_type
    /\ NamedTags # <<>>
    /\ ~Vetoed

\* the author is present and contains one of the rule's patterns, whatever
\* the case of either
AuthorHasPattern ==
    /\ probe.context.author # None
    /\ \E i \in DOMAIN probe.rule.patterns :
          Occurrences(ToLower(probe.context.author[1]),
                      ToLower(probe.rule.patterns[i])) # {}

AllRequiredKeywordsMatch ==
    \A i \in DOMAIN probe.rule.required_keywords :
        MatchesKeyword(ProbeContent, ToLower(probe.rule.required_keywords[i]))

C16_WitnessNoKeywords ==
    /\ RuleCalled("author_with_content")
    /\ probe.rule.required_keywords = <<>>
    /\ AuthorHasPattern
    /\ answer = Some(None)

\* the number of patterns of the rule that match the content
MatchedPatterns ==
    Cardinality({i \in DOMAIN probe.rule.patterns :
        MatchesKeyword(ProbeContent, ToLower(probe.rule.patterns[i]))})

\* min_keyword_count, with 1 when it is unset
MinKeywordCount ==
    IF probe.rule.min_keyword_count = None THEN 1
    ELSE probe.rule.min_keyword_count[1]

\* C17: a content_analysis rule (that names a tag and is not skipped by an
\* exclude pattern) matches if and only if at least min_keyword_count of its
\* patterns match, 1 when unset; its tags then carry the rule's confidence
C17_ContentAnalysisMinCount ==
    RuleCalled("content_analysis") =>
        /\ (answer # Some(None)) <=> (MatchedPatterns >= MinKeywordCount)
        /\ answer # Some(None) =>
              /\ answer = Some(Some(NamedTags))
              /\ \A i \in DOMAIN answer[1][1] :
                    answer[1][1][i].confidence = probe.rule.confidence

\* a content_analysis rule asking for two patterns matched on exactly two and
\* produced its tags with the rule's confidence, which is not the keyword
\* score of its patterns
C17_Witness ==
    /\ RuleCalled("content_analysis")
    /\ probe.rule.min_keyword_count = Some(2)
    /\ MatchedPatterns = 2
    /\ answer = Some(Some(NamedTags))
    /\ CheckKeywords(Format2(probe.context.title,
                             UnwrapOr(probe.context.description, <<>>)),
                     probe.rule.patterns) # Some(probe.rule.confidence)

\* the targets of the aliases one of whose `from` entries, lower-cased, is
\* `lower`
AliasTargets(lower) ==
    {engine.config.aliases[i].to :
        i \in {j \in DOMAIN engine.config.aliases :
                 \E k \in DOMAIN engine.config.aliases[j].from :
                    ToLower(engine.config.aliases[j].from[k]) = lower}}

\* C20: normalize_tag returns the target of an alias whose lower-cased `from`
\* entry equals the lower-cased tag, and the lower-cased tag when there is
\* none
C20_NormalizeTag ==
    Called("normalize_tag") =>
        IF AliasTargets(ToLower(probe.tag)) = {}
        THEN answer = Some(ToLower(probe.tag))
        ELSE answer # None /\ answer[1] \in AliasTargets(ToLower(probe.tag))

\* a tag written in lower case was mapped by an alias declared in upper case,
\* as the same tag written in upper case is; a tag without an alias comes
\* back lower-cased
C20_Witness ==
    /\ Called("normalize_tag")
    /\ probe.tag = ml
    /\ engine.config.aliases = <<TagAlias(<<ML>>, ai)>>
    /\ answer = Some(ai)
    /\ NormalizeTag(engine, <<"M", "L">>) = ai
    /\ NormalizeTag(engine, AI) = ai

----------------------------------------------------------------------------
(* The engine on configurations that carry what no rule of a well-formed   *)
(* configuration has: a rule of an unknown type with no patterns, and      *)
(* rules whose confidence is NaN (a TOML float can be nan).                 *)

NaNRulePool ==
    { TagRule("no_such_type", <<>>, ai, <<>>, 480, <<>>),
      TagRule("content_contains", <<AI>>, ai, <<>>, NaN, <<>>),
      TagRule("feed_slug", <<sw>>, rs, <<>>, NaN, <<>>),
      TagRule("feed_slug", <<sw>>, <<>>, <<AI, sw>>, 900, <<>>) }

NaNRuleLists ==
    UNION {{list \in [1..n -> NaNRulePool] :
                \A i, j \in 1..n : i # j => list[i] # list[j]} :
           n \in 0..MaxRules}

NaNConfigs ==
    [enabled : {TRUE},
     auto_tag_new_articles : BOOLEAN,
     max_tags_per_item : 0..MaxTagsCap,
     confidence_threshold : {180},
     tags : TagLists,
     rules : NaNRuleLists,
     aliases : {<<>>}]

InitNaN ==
    /\ engine \in {FromConfig(config) : config \in NaNConfigs}
    /\ ctx = NoContext
    /\ tags = <<>>
    /\ seen = {}
    /\ excluded_tags = {}
    /\ feed_tag_hints = {}
    /\ base = <<>>
    /\ collected = <<>>
    /\ prev = None
    /\ calls = 0
    /\ probe = NoProbe
    /\ answer = None
    /\ panicked = FALSE
    /\ threads = NoThreads

SpecNaN == InitNaN /\ [][Next]_vars

\* C18: generate_tags_for_item never panics, whatever the configuration and
\* the context: every call returns a tag list
C18_NeverPanics == ~panicked

----------------------------------------------------------------------------
(* One engine shared by worker threads.  Every thread calls                *)
(* generate_tags_for_item(&self, ..) once and runs it step by step, and     *)
(* the steps of the threads interleave; threads[t] holds the position and  *)
(* the locals of the call of thread t.                                     *)

\* the number of worker threads
NumThreads == 2

Threads == 1..NumThreads

ConcRuleLists ==
    { <<>>,
      <<TagRule("exclude_if", <<wk>>, <<>>, <<>>, Unit, <<ai>>),
        TagRule("content_contains", <<AI>>, ai, <<>>, 480, <<>>)>>,
      <<TagRule("feed_slug", <<sw>>, <<>>, <<AI, sw>>, 900, <<>>)>> }

ConcConfigs ==
    [enabled : BOOLEAN,
     auto_tag_new_articles : {TRUE},
     max_tags_per_item : {MaxTagsCap},
     confidence_threshold : {180},
     tags : {<<TagDefinition(ai, <<ai, ml, xx>>), TagDefinition(rs, <<rs>>),
               TagDefinition(xx, <<wk, xx>>)>>},
     rules : ConcRuleLists,
     aliases : {<<TagAlias(<<ML>>, ai)>>}]

ConcContexts ==
    [title : {AI \o <<" ">> \o rs, wk \o <<" ">> \o ai},
     description : {None},
     link : {None},
     author : {Some(sw)},
     feed_slug : {sw},
     feed_tags : {Some(<<ai, rs>>), Some(<<ML>>)},
     rss_categories : {Some(<<rs, ml>>)}]

\* a thread that has not called yet
Idle ==
    [pc |-> "idle", context |-> NoContext, hints |-> {}, order |-> <<>>,
     excluded |-> {}, st |-> [tags |-> <<>>, seen |-> {}], result |-> None]

InitConc ==
    /\ engine \in {FromConfig(config) : config \in ConcConfigs}
    /\ ctx = NoContext
    /\ tags = <<>>
    /\ seen = {}
    /\ excluded_tags = {}
    /\ feed_tag_hints = {}
    /\ base = <<>>
    /\ collected = <<>>
    /\ prev = None
    /\ calls = 0
    /\ probe = NoProbe
    /\ answer = None
    /\ panicked = FALSE
    /\ threads = [t \in Threads |-> Idle]

\* the variables of the single caller and of the helper calls, which the
\* worker threads leave alone
single_vars == <<ctx, tags, seen, excluded_tags, feed_tag_hints, base,
                 collected, prev, calls, probe, answer, panicked>>

\* Locals reading the tags and the seen set of one place for every thread, as
\* if they were fields of the shared engine
SharedLocals(t) == threads[1].st

\* `let mut tags = Vec::new(); let mut seen = HashSet::new();`: the tags and
\* the seen set are locals of the call of thread t
Locals(t) == threads[t].st

\* thread t goes on with the locals `st` at position `pc`
Goto(t, pc, st) ==
    /\ threads' = [threads EXCEPT ![t].pc = pc, ![t].st = st]
    /\ UNCHANGED engine
    /\ UNCHANGED single_vars

\* lines 54-67: the call; a disabled engine returns at once
Call(t) ==
    /\ threads[t].pc = "idle"
    /\ \E context \in ConcContexts :
          IF ~engine.config.enabled
          THEN threads' = [threads EXCEPT ![t].pc = "done",
                                          ![t].context = context,
                                          ![t].result = Some(<<>>)]
          ELSE \E order \in HashSetOrders(FeedTagHints(engine, context)) :
                  threads' = [threads EXCEPT
                                 ![t].pc = "categories",
                                 ![t].context = context,
                                 ![t].hints = FeedTagHints(engine, context),
                                 ![t].order = order]
    /\ UNCHANGED engine
    /\ UNCHANGED single_vars

\* lines 69-81
Categories(t) ==
    /\ threads[t].pc = "categories"
    /\ Goto(t, "rules", CategoryStep(engine, threads[t].context, Locals(t)))

\* lines 83-125
Rules(t) ==
    /\ threads[t].pc = "rules"
    /\ LET excluded == ExcludedTags(engine, threads[t].context)
       IN  /\ threads' = [threads EXCEPT
                             ![t].pc = "keywords",
                             ![t].excluded = excluded,
                             ![t].st = RuleStep(engine, threads[t].context,
                                                excluded, 1, Locals(t))]
           /\ UNCHANGED engine
           /\ UNCHANGED single_vars

\* lines 127-145
Keywords(t) ==
    /\ threads[t].pc = "keywords"
    /\ Goto(t, "boost", KeywordStep(engine, threads[t].context,
                                    threads[t].excluded, Locals(t)))

\* lines 147-155
BoostHints(t) ==
    /\ threads[t].pc = "boost"
    /\ Goto(t, "weak", BoostStep(threads[t].hints, Locals(t)))

\* lines 157-192
WeakHints(t) ==
    /\ threads[t].pc = "weak"
    /\ Goto(t, "sort", WeakStep(engine, threads[t].context,
                                threads[t].excluded, threads[t].order, 1,
                                Locals(t)))

\* lines 194-198
SortAndReturn(t) ==
    /\ threads[t].pc = "sort"
    /\ threads' = [threads EXCEPT
                      ![t].pc = "done",
                      ![t].result =
                          Some(Truncate(SortByConfidence(Locals(t).tags),
                                        engine.config.max_tags_per_item))]
    /\ UNCHANGED engine
    /\ UNCHANGED single_vars

NextConc ==
    \E t \in Threads :
        \/ Call(t)
        \/ Categories(t)
        \/ Rules(t)
        \/ Keywords(t)
        \/ BoostHints(t)
        \/ WeakHints(t)
        \/ SortAndReturn(t)

SpecConc == InitConc /\ [][NextConc]_vars

\* what the call of thread t returns when it runs alone, its feed hints being
\* iterated in the same order
AloneResult(t) ==
    GenerateTagsForItem(engine, threads[t].context, threads[t].order).tags

\* every call that has returned, returned what it returns when run alone
ReturnsAsAlone ==
    \A t \in Threads :
        threads[t].pc = "done" => threads[t].result = Some(AloneResult(t))

\* C19: no step of a call modifies the shared engine, and whatever the
\* interleaving of the calls each call returns what it returns when run alone
C19_SharedEngine ==
    /\ [][engine' = engine]_vars
    /\ []ReturnsAsAlone

\* one thread has returned a tag list while another thread, called on a
\* different context with a different result, is in the middle of its call
C19_Witness ==
    \E t, u \in Threads :
        /\ threads[t].pc = "done"
        /\ threads[t].result # Some(<<>>)
        /\ threads[u].pc = "weak"
        /\ threads[u].st.tags # <<>>
        /\ threads[u].context # threads[t].context
        /\ AloneResult(u) # AloneResult(t)

\* the rule types whose rules produce tags
TagProducing ==
    {"title_contains", "content_contains", "url_contains", "feed_slug",
     "author_contains", "author_with_content", "content_analysis"}

\* the match expression of apply_rule holds for the rule and the context of
\* the call
ProbeMatches ==
    RuleMatches(probe.rule, probe.context.title, probe.context.description,
                probe.context.link, probe.context.author,
                probe.context.feed_slug)

\* C21: apply_rule returns None for a rule of a tag-producing type one of
\* whose exclude_patterns matches the lower-cased title+description, also
\* when the rule's own predicate holds
C21_PerRuleVeto ==
    (/\ Called("apply_rule")
     /\ probe.rule.rule_type \in TagProducing
     /\ Vetoed) => answer = Some(None)

\* apply_rule returned None for a rule that names tags and whose predicate
\* holds, because one of its exclude patterns matches
C21_Witness ==
    /\ Called("apply_rule")
    /\ probe.rule.rule_type = "url_contains"
    /\ Vetoed
    /\ ProbeMatches
    /\ NamedTags # <<>>
    /\ answer = Some(None)

\* C22: a rule that matches (no exclude pattern skips it and its predicate
\* holds) emits one tag for `tag`, if set, then one per entry of `tags`, in
\* that order, each with the rule's confidence and source Rule; it yields
\* None when it names no tag
C22_EmittedTags ==
    (Called("apply_rule") /\ ~Vetoed /\ ProbeMatches) =>
        answer = Some(IF NamedTags = <<>> THEN None ELSE Some(NamedTags))

\* a matching rule that sets `tag` and two `tags` emitted the three tags,
\* `tag` first
C22_Witness ==
    /\ Called("apply_rule")
    /\ ~Vetoed
    /\ ProbeMatches
    /\ probe.rule.tag = sw
    /\ probe.rule.tags = <<ml, rs>>
    /\ answer # Some(None)
    /\ [i \in 1..3 |-> answer[1][1][i].name] = <<sw, ml, rs>>
    /\ \A i \in 1..3 :
          /\ answer[1][1][i].confidence = probe.rule.confidence
          /\ answer[1][1][i].source = "Rule"

\* a matching rule that names no tag yielded None
C22_WitnessNoTags ==
    /\ Called("apply_rule")
    /\ ~Vetoed
    /\ ProbeMatches
    /\ NamedTags = <<>>
    /\ answer = Some(None)

\* the tags that the rules and the keyword step collected, in the order in
\* which they were appended
RuleAndKeywordTags ==
    {i \in DOMAIN base : base[i].source \in {"Rule", "Keyword"}}

\* C23: a matching exclude_if rule suppresses its exclude_tags for every
\* rule-produced and keyword-produced tag wherever it is declared in
\* config.rules, and the rule-produced tags are collected in the declaration
\* order of their rules
C23_VetoBeforeRulesInOrder ==
    Returned =>
        /\ \A r \in MatchingExcludeRules :
              \A i \in RuleAndKeywordTags :
                  base[i].name \notin Range(engine.config.rules[r].exclude_tags)
        /\ \A i, j \in DOMAIN base :
              (i < j /\ base[i].source = "Rule" /\ base[j].source = "Rule")
                  => StepKey(base[i]) < StepKey(base[j])

\* a matching exclude_if rule declared after a matching rule that names one
\* of its exclude_tags suppressed that tag, which a tag definition with a
\* matching keyword names too
C23_Witness ==
    /\ Returned
    /\ engine.config.enabled
    /\ engine.config.auto_tag_new_articles
    /\ Len(engine.config.rules) = 2
    /\ 2 \in MatchingExcludeRules
    /\ LET matched == ApplyRule(engine.config.rules[1], ctx.title,
                                ctx.description, ctx.link, ctx.author,
                                ctx.feed_slug)
       IN  /\ matched # None
           /\ \E k \in DOMAIN matched[1] :
                 /\ NormalizeTag(engine, matched[1][k].name)
                       \in Range(engine.config.rules[2].exclude_tags)
                 /\ Evidenced(NormalizeTag(engine, matched[1][k].name))
                 /\ NormalizeTag(engine, matched[1][k].name) \notin Names(tags)
    /\ tags # <<>>

\* check_keywords of the i-th tag definition over title+description
Score(i) ==
    CheckKeywords(Format2(ctx.title, UnwrapOr(ctx.description, <<>>)),
                  engine.config.tags[i].keywords)

\* the i-th tag definition passes the gate of the keyword step
PassesGate(i) ==
    /\ engine.config.auto_tag_new_articles
    /\ Score(i) # None
    /\ Score(i)[1] >= engine.config.confidence_threshold
    /\ KeywordNames[i] \notin excluded_tags

\* the name of the i-th tag definition is seen when the keyword step comes to
\* it: a category or a rule produced it, or an earlier definition of the
\* same name passed the gate
SeenBefore(i) ==
    \/ \E k \in DOMAIN base :
          base[k].source # "Keyword" /\ base[k].name = KeywordNames[i]
    \/ \E j \in 1..(i - 1) : KeywordNames[j] = KeywordNames[i] /\ PassesGate(j)

\* the tag definitions that contribute a tag
Contributing ==
    {i \in DOMAIN engine.config.tags : PassesGate(i) /\ ~SeenBefore(i)}

\* C24: the tags with source Keyword are those of the tag definitions that
\* pass the gate (auto_tag_new_articles, a score of at least
\* confidence_threshold, a name not excluded) and whose name is not yet seen,
\* each with its score as base confidence; with auto_tag_new_articles false
\* no output tag has source Keyword
C24_KeywordGate ==
    (Returned /\ engine.config.enabled) =>
        /\ {base[k] : k \in {n \in DOMAIN base : base[n].source = "Keyword"}}
              = {Tag(KeywordNames[i], Score(i)[1], "Keyword") : i \in Contributing}
        /\ ~engine.config.auto_tag_new_articles =>
              \A k \in DOMAIN tags : tags[k].source # "Keyword"

\* in one call a tag definition contributed a tag that is in the output, and
\* another matched with a score below confidence_threshold
C24_Witness ==
    /\ Returned
    /\ \E k \in DOMAIN tags : tags[k].source = "Keyword"
    /\ \E i, j \in DOMAIN engine.config.tags :
          /\ i \in Contributing
          /\ Score(j) # None
          /\ Score(j)[1] < engine.config.confidence_threshold

\* a tag definition passed the gate with a name already seen and contributed
\* nothing
C24_WitnessSeen ==
    /\ Returned
    /\ \E n \in DOMAIN engine.config.tags : PassesGate(n) /\ SeenBefore(n)

----------------------------------------------------------------------------
(* The engine on items whose optional fields are missing or empty, and on  *)
(* configurations whose rules hold an empty pattern or name their          *)
(* exclude_tags in upper case or by an alias.                              *)

empty == <<>>

EdgeRulePool ==
    { TagRule("exclude_if", <<wk>>, <<>>, <<>>, Unit, <<AI>>),
      TagRule("exclude_if", <<wk>>, <<>>, <<>>, Unit, <<ML>>),
      TagRule("content_contains", <<AI>>, ai, <<>>, 480, <<>>),
      TagRule("url_contains", <<empty>>, rs, <<>>, 480, <<>>),
      TagRule("author_contains", <<sw, empty>>, sw, <<>>, 300, <<>>) }

EdgeRuleLists ==
    UNION {{list \in [1..n -> EdgeRulePool] :
                \A i, j \in 1..n : i # j => list[i] # list[j]} :
           n \in 0..MaxRules}

EdgeConfigs ==
    [enabled : {TRUE},
     auto_tag_new_articles : BOOLEAN,
     max_tags_per_item : {MaxTagsCap},
     confidence_threshold : {180},
     tags : {<<TagDefinition(ai, <<ai, ml, xx>>), TagDefinition(rs, <<rs>>)>>},
     rules : EdgeRuleLists,
     aliases : {<<TagAlias(<<ML>>, ai)>>}]

EdgeContexts ==
    [title : {AI \o <<" ">> \o rs, wk \o <<" ">> \o ai},
     description : {None, Some(empty)},
     link : {None, Some(empty)},
     author : {None, Some(empty)},
     feed_slug : {sw},
     feed_tags : {None, Some(<<ai>>)},
     rss_categories : {None}]

InitEdge ==
    /\ engine \in {FromConfig(config) : config \in EdgeConfigs}
    /\ ctx = NoContext
    /\ tags = <<>>
    /\ seen = {}
    /\ excluded_tags = {}
    /\ feed_tag_hints = {}
    /\ base = <<>>
    /\ collected = <<>>
    /\ prev = None
    /\ calls = 0
    /\ probe = NoProbe
    /\ answer = None
    /\ panicked = FALSE
    /\ threads = NoThreads

GenerateEdge == GenerateOn(EdgeContexts)

NextEdge == GenerateEdge \/ Repeat

SpecEdge == InitEdge /\ [][NextEdge]_vars

\* the optional text fields of an ItemContext
OptionalFields == {"description", "link", "author"}

\* C25: the call returns for a missing description, link or author what it
\* returns for the same item with that field present and empty
C25_MissingFieldAsEmpty ==
    Returned =>
        \A field \in OptionalFields :
            ctx[field] = None =>
                \A order \in HashSetOrders(Hints) :
                    GenerateTagsForItem(engine,
                                        [ctx EXCEPT ![field] = Some(empty)],
                                        order).tags = tags


\* C26: when an exclude_if rule matches, no rule-produced, keyword-produced
\* or feed-hint tag named normalize_tag(t) is in the output for any entry t of
\* its exclude_tags, also when t is in upper case or is an alias
C26_ExclusionOnNormalizedNames ==
    Returned =>
        \A r \in MatchingExcludeRules :
            \A k \in DOMAIN engine.config.rules[r].exclude_tags :
                \A i \in DOMAIN tags :
                    tags[i].source \in {"Rule", "Keyword", "Manual"}
                        => tags[i].name #
                               NormalizeTag(engine,
                                            engine.config.rules[r].exclude_tags[k])


\* the tags the rules from the i-th on produce, in declaration order, without
\* those that a matching exclude_if rule suppresses
RECURSIVE RuleProducersFrom(_)
RuleProducersFrom(i) ==
    IF i > Len(engine.config.rules) THEN <<>>
    ELSE LET matched == ApplyRule(engine.config.rules[i], ctx.title,
                                  ctx.description, ctx.link, ctx.author,
                                  ctx.feed_slug)
             emitted == UnwrapOr(matched, <<>>)
             produced == [k \in DOMAIN emitted |->
                             Tag(NormalizeTag(engine, emitted[k].name),
                                 emitted[k].confidence, "Rule")]
         IN  SelectSeq(produced, LAMBDA tag : tag.name \notin excluded_tags)
             \o RuleProducersFrom(i + 1)

\* the tags the tag definitions that pass the gate of the keyword step produce
KeywordProducers ==
    LET produced == [i \in DOMAIN engine.config.tags |->
                        IF PassesGate(i)
                        THEN <<Tag(KeywordNames[i], Score(i)[1], "Keyword")>>
                        ELSE <<>>]
        Flat[i \in 0..Len(produced)] ==
            IF i = 0 THEN <<>> ELSE Flat[i - 1] \o produced[i]
    IN  Flat[Len(produced)]

\* every tag a step or a rule produces, in the order of the pipeline
Producers ==
    [i \in DOMAIN CategoryNames |-> Tag(CategoryNames[i], RssConfidence, "Feed")]
        \o RuleProducersFrom(1) \o KeywordProducers

\* the earliest tag of `producers` named `name`
Earliest(producers, name) ==
    producers[CHOOSE i \in DOMAIN producers :
                 /\ producers[i].name = name
                 /\ \A j \in 1..(i - 1) : producers[j].name # name]

\* C27: a tag name that more than one step or rule produces keeps the source
\* and the base confidence of its earliest producer in pipeline order (RSS
\* categories, rules in declaration order, keyword definitions); a later
\* producer of a higher confidence neither replaces nor raises it
C27_FirstProducerWins ==
    (Returned /\ engine.config.enabled) =>
        LET producers == Producers
            names == Names(producers)
        IN  /\ Names(base) = names
            /\ \A k \in DOMAIN base : base[k] = Earliest(producers, base[k].name)
            /\ \A i \in DOMAIN tags :
                  tags[i].name \in names =>
                      LET first == Earliest(producers, tags[i].name)
                      IN  /\ tags[i].source = first.source
                          /\ \/ tags[i].confidence = first.confidence
                             \/ IsBoostOf(tags[i].confidence, first.confidence)

\* a name that a step and a later rule or definition of a higher confidence
\* both produce is in the output
C27_Witness ==
    /\ Returned
    /\ \E a, b \in DOMAIN Producers :
          /\ a < b
          /\ Producers[a].name = Producers[b].name
          /\ Producers[a].source # Producers[b].source
          /\ Producers[a].confidence < Producers[b].confidence
          /\ \A c \in 1..(a - 1) : Producers[c].name # Producers[a].name
          /\ Producers[a].name \in Names(tags)
    /\ \E a, b \in DOMAIN Producers :
          /\ a < b
          /\ Producers[a].name = Producers[b].name
          /\ Producers[a].source = "Rule"
          /\ Producers[b].source = "Rule"
          /\ Producers[a].confidence < Producers[b].confidence


\* the tags of the category, rule and keyword steps that a feed hint names and
\* whose base confidence is in [0, 1]
HintedInUnitRange ==
    {i \in DOMAIN base :
        /\ base[i].name \in Hints
        /\ base[i].confidence >= 0
        /\ base[i].confidence <= Unit}

\* C28 as claimed: the feed-hint boost never lowers a confidence, for every
\* base confidence in [0, 1]
C28_BoostNeverLowers ==
    Returned =>
        \A i \in HintedInUnitRange :
            collected[i].confidence >= base[i].confidence

\* C28: the feed-hint boost never lowers a base confidence in [0, 0.95], and
\* lowers a base confidence in (0.95, 1] to 0.95
C28_BoostNeverLowersUpToCap ==
    Returned =>
        \A i \in HintedInUnitRange :
            IF base[i].confidence <= BoostCap
            THEN collected[i].confidence >= base[i].confidence
            ELSE collected[i].confidence = BoostCap

\* a feed hint names a tag of base confidence 1.0, which the boost lowered,
\* and a tag that the boost raised
C28_Witness ==
    /\ Returned
    /\ \E i, j \in HintedInUnitRange :
          /\ base[i].confidence = Unit
          /\ collected[i].confidence < base[i].confidence
          /\ collected[j].confidence > base[j].confidence


\* 1/3, the least score check_keywords gives a tag definition with a matching
\* keyword
WeakSignalScore == Unit \div 3

\* C29: with auto_tag_new_articles true and confidence_threshold <= 1/3 the
\* weak feed-hint step adds no tag: no output tag has source Manual or is
\* the tag of confidence 0.25 of that step
C29_WeakStepAddsNothing ==
    (/\ Returned
     /\ engine.config.auto_tag_new_articles
     /\ engine.config.confidence_threshold <= WeakSignalScore) =>
        /\ WeaklyAdmitted = {}
        /\ \A i \in DOMAIN tags :
              /\ tags[i].source # "Manual"
              /\ tags[i] # Tag(tags[i].name, WeakConfidence, "Manual")


\* with auto_tag_new_articles true and confidence_threshold <= 1/3, a feed
\* hint whose tag definition has a matching keyword is in the output from the
\* keyword step with the score 1/3, and another is excluded
C29_Witness ==
    /\ Returned
    /\ engine.config.auto_tag_new_articles
    /\ engine.config.confidence_threshold <= WeakSignalScore
    /\ \E name \in Hints :
          /\ FirstDefEvidenced(name)
          /\ \E i \in DOMAIN base :
                /\ base[i] = Tag(name, WeakSignalScore, "Keyword")
                /\ collected[i] \in Range(tags)

\* with the same settings a feed hint whose tag definition has a matching
\* keyword is excluded
C29_WitnessExcluded ==
    /\ Returned
    /\ engine.config.auto_tag_new_articles
    /\ engine.config.confidence_threshold <= WeakSignalScore
    /\ \E name \in Hints \cap excluded_tags : FirstDefEvidenced(name)


\* C30: normalize_tag is idempotent: normalizing the name it returned gives
\* that name again, whatever the alias table
C30_NormalizeTagIdempotent ==
    Called("normalize_tag") =>
        NormalizeTag(engine, answer[1]) = answer[1]

====
